---- MODULE Spec2Model ----
(***************************************************************************)
(* Webhook listener with PostgreSQL backend (src/app_postgres.py).         *)
(*                                                                         *)
(* The model covers POST /webhook: each request is a process that walks    *)
(* through the statements of webhook() in its own connection and           *)
(* transaction.  The store is the pair of committed tables                 *)
(* linkedin_contacts and webhook_logs; a transaction's writes stay in      *)
(* txn_log / txn_write until conn.commit() publishes them.                 *)
(*                                                                         *)
(* Storage engine contract used by the model (READ COMMITTED):             *)
(*  - INSERT ... ON CONFLICT (col) DO UPDATE arbitrates on the unique      *)
(*    constraint of col: a committed row with the same col value is        *)
(*    updated, an uncommitted one of another transaction makes the         *)
(*    statement wait, otherwise the proposed row is inserted;              *)
(*  - unique_email and unique_linkedin_url are DEFERRABLE INITIALLY        *)
(*    DEFERRED, so a duplicate on the column that is not the arbiter is    *)
(*    detected by conn.commit(), which then raises;                        *)
(*  - NULL never equals NULL in a unique constraint, the empty string      *)
(*    is an ordinary value;                                                *)
(*  - sequences (SERIAL) are not transactional;                            *)
(*  - CURRENT_TIMESTAMP is the start time of the transaction.              *)
(***************************************************************************)
EXTENDS Integers, FiniteSets, Sequences, TLC

\* ---------------------------------------------------------------- bounds
NumReq == 3          \* number of deliveries in a behaviour
MaxOverlaps == 1     \* number of requests arriving while another is in flight
MaxFaults == 1       \* number of storage faults in a behaviour
MaxV2Requests == 3   \* number of requests made to app_v2
NumCallers == 2      \* number of threads calling into the initialization
MaxCalls == 3        \* number of calls those threads make

Requests == 1..NumReq

\* ------------------------------------------------------ values and rows
Missing == "<missing>"     \* a key that is not in a JSON object
NULL == "<null>"           \* SQL NULL / Python None in a text column
NullId == 0                \* SQL NULL in an integer column (SERIAL starts at 1)

\* dict.get(key, default)
Get(v, default) == IF v = Missing THEN default ELSE v

\* websites whose first entry has no key "url": [{"text": "home"}]
NoUrlEntry == "<entry without url>"

\* A JSON body.  kind: "none" (get_json() returns None), "invalid"
\* (get_json() raises), "object".  ci says whether the key contactInfo is
\* present and ci_type what JSON type its value has: "object", "null" or
\* "string" (a non-empty string; a non-empty list behaves the same);
\* ci_* are the keys of the nested object.  ci_websites is Missing, the
\* url of the first entry of the list, or NoUrlEntry.
Body(kind, name, title, profileUrl, ci, e, u, w) ==
    [kind |-> kind, name |-> name, title |-> title, profileUrl |-> profileUrl,
     ci |-> ci, ci_type |-> "object", ci_email |-> e, ci_linkedinUrl |-> u,
     ci_websites |-> w]

NoBody == Body("none", Missing, Missing, Missing, FALSE, Missing, Missing, Missing)
InvalidBody == Body("invalid", Missing, Missing, Missing, FALSE, Missing, Missing, Missing)
EmptyObject == Body("object", Missing, Missing, Missing, FALSE, Missing, Missing, Missing)

\* The payloads that exercise the two upsert branches and the skip.
Payloads ==
    { Body("object", "Ada", Missing, Missing, TRUE, "a@x", "li/u", Missing),
      Body("object", "Ann", Missing, Missing, TRUE, "a@x", Missing, Missing),
      Body("object", "Bea", Missing, Missing, TRUE, "b@x", Missing, Missing),
      Body("object", "Bob", Missing, "li/u", FALSE, Missing, Missing, Missing),
      Body("object", "Eve", Missing, Missing, FALSE, Missing, Missing, Missing) }

\* Payloads with other shapes of contactInfo.
MorePayloads ==
    { Body("object", "Dee", Missing, "li/u", TRUE, "", Missing, Missing),
      [Body("object", "Nil", Missing, "li/u", TRUE, Missing, Missing, Missing)
          EXCEPT !.ci_type = "null"],
      [Body("object", "Zed", Missing, Missing, TRUE, Missing, Missing, Missing)
          EXCEPT !.ci_type = "string"],
      Body("object", "Web", Missing, Missing, TRUE, Missing, "li/u", NoUrlEntry) }

\* The payloads next to one that carries the profile URL of Ada with
\* another email.
KeyedPayloads ==
    Payloads \cup
    { Body("object", "Bab", Missing, Missing, TRUE, "b@x", "li/u", Missing) }

\* The bodies delivered when requests overlap, and the larger set delivered
\* when they come one after another.
Bodies == Payloads \cup {EmptyObject}
AllBodies == Payloads \cup MorePayloads \cup {NoBody, InvalidBody, EmptyObject}

\* Python truthiness of the parsed body: None and {} are falsy.
DataTruthy(d) ==
    /\ d.kind = "object"
    /\ \/ d.name # Missing
       \/ d.title # Missing
       \/ d.profileUrl # Missing
       \/ d.ci

\* contact_info = data.get('contactInfo', {}); truthy iff a non-empty dict
\* or another non-empty value; None is falsy.
ContactInfoTruthy(d) ==
    /\ d.ci
    /\ d.ci_type # "null"
    /\ \/ d.ci_type = "string"
       \/ d.ci_email # Missing
       \/ d.ci_linkedinUrl # Missing
       \/ d.ci_websites # Missing

\* contact_info.get(...) raises AttributeError when contact_info is truthy
\* and not a dict.
ContactInfoRaises(d) == ContactInfoTruthy(d) /\ d.ci_type # "object"

\* websites[0]['url'] raises KeyError when the first entry has no url.
WebsiteRaises(d) ==
    /\ ContactInfoTruthy(d)
    /\ d.ci_type = "object"
    /\ d.ci_websites = NoUrlEntry

\* email = contact_info.get('email', '') if contact_info else ''
email_of(d) == IF ContactInfoTruthy(d) THEN Get(d.ci_email, "") ELSE ""

\* linkedin_url = contact_info.get('linkedinUrl', '') if contact_info
\*                else data.get('profileUrl', '')
linkedin_url_of(d) ==
    IF ContactInfoTruthy(d) THEN Get(d.ci_linkedinUrl, "")
    ELSE Get(d.profileUrl, "")

\* websites = contact_info.get('websites', []) if contact_info else []
\* website = websites[0]['url'] if websites else ''
website_of(d) == IF ContactInfoTruthy(d) THEN Get(d.ci_websites, "") ELSE ""

name_of(d) == Get(d.name, "")
title_of(d) == Get(d.title, "")

unique_identifier_orname(d) ==
    IF email_of(d) # "" THEN email_of(d)
    ELSE IF linkedin_url_of(d) # "" THEN linkedin_url_of(d) ELSE name_of(d)

\* unique_identifier = email if email else linkedin_url
unique_identifier(d) == IF email_of(d) # "" THEN email_of(d) ELSE linkedin_url_of(d)


\* ------------------------------------------------------------ the store
\* A row of linkedin_contacts.  company, location and profile_data are
\* read and written by the same code as title and are represented by it.
ContactRow(id, name, title, em, url, website, raw, created, updated) ==
    [id |-> id, name |-> name, title |-> title, email |-> em,
     linkedin_url |-> url, website |-> website, raw_json |-> raw,
     created_at |-> created, updated_at |-> updated]

NoContact == ContactRow(NullId, NULL, NULL, NULL, NULL, NULL, EmptyObject, 0, 0)

\* processing_notes: NULL until the log entry is finalized, then
\* "Contact {created|updated} with ID {contact_id} (matched by {...})"
NoNotes == [action |-> NULL, matched_by |-> NULL]

LogRow_processed(id, d, received) ==
    [log_id |-> id, event_type |-> "linkedin_data",
     contact_email |-> email_of(d), contact_name |-> name_of(d),
     linkedin_url |-> linkedin_url_of(d), webhook_data |-> d,
     received_at |-> received, processed |-> TRUE,
     contact_id |-> NullId, processing_notes |-> NoNotes]

\* A row of webhook_logs.
LogRow(id, d, received) ==
    [log_id |-> id, event_type |-> "linkedin_data",
     contact_email |-> email_of(d), contact_name |-> name_of(d),
     linkedin_url |-> linkedin_url_of(d), webhook_data |-> d,
     received_at |-> received, processed |-> FALSE,
     contact_id |-> NullId, processing_notes |-> NoNotes]

NoLog == LogRow(NullId, EmptyObject, 0)

NoWrite == [kind |-> "none", row |-> NoContact]

NoResp == [code |-> 0, status |-> NULL, action |-> NULL, contact_id |-> NullId,
           log_id |-> NullId, message |-> NULL]

\* ------------------------------------------------- app_v2: values, rows
\* A row of the SQLite table linkedin_contacts of app_v2.  title, company,
\* location, the website columns and profile_url are written by the same
\* INSERT as name and are represented by it.
V2Row(id, name, em, url, raw, created, updated) ==
    [id |-> id, name |-> name, email |-> em, linkedin_url |-> url,
     raw_data |-> raw, created_at |-> created, updated_at |-> updated]

\* The body of POST /clear.  kind: "none" (get_json() returns None),
\* "invalid" (get_json() raises BadRequest), "object", or "string" (a
\* non-empty JSON string; a non-empty list or a number behaves the same).
ClearBody(kind, confirm) == [kind |-> kind, confirm |-> confirm]

NoClearBody == ClearBody("none", Missing)

ClearBodies ==
    { NoClearBody,
      ClearBody("invalid", Missing),
      ClearBody("object", Missing),
      ClearBody("object", "yes-clear-all-data"),
      ClearBody("object", "YES-CLEAR-ALL-DATA"),
      ClearBody("object", "yes"),
      ClearBody("string", Missing) }

NoV2Req == [op |-> "none", data |-> NoBody, body |-> NoClearBody]

NoV2Resp == [code |-> 0, contact_id |-> NullId]

Callers == 1..NumCallers

VARIABLES
    linkedin_contacts,   \* committed rows of the contacts table
    webhook_logs,        \* committed rows of the delivery log table
    id_seq,              \* linkedin_contacts_id_seq: last value handed out
    log_id_seq,          \* webhook_logs_log_id_seq: last value handed out
    clock,               \* the database clock
    pc,                  \* position of each request in webhook()
    data,                \* data = request.get_json()
    conn,                \* the request's connection: "none", "open", "closed"
    txn_now,             \* CURRENT_TIMESTAMP of the request's transaction
    txn_log,             \* uncommitted webhook_logs row of the request
    txn_write,           \* uncommitted linkedin_contacts write of the request
    txn_seen,            \* ids of the committed contacts that answered to the
                         \* request's key when its transaction started
    log_id,              \* local log_id
    contact_id,          \* local contact_id
    was_inserted,        \* local was_inserted
    resp,                \* the response returned by the request
    faults,              \* number of storage faults so far
    overlaps,            \* number of requests that arrived during another
    v2_linkedin_contacts, \* app_v2: rows of the SQLite table linkedin_contacts
    v2_seq,              \* app_v2: sqlite_sequence of the AUTOINCREMENT id
    v2_now,              \* app_v2: the clock
    v2_req,              \* app_v2: the request handled last
    v2_resp,             \* app_v2: the response to it
    v2_count,            \* app_v2: number of requests handled
    db_initialized,      \* the global _db_initialized
    init_lock,           \* the global _init_lock
    ipc,                 \* position of each caller of the initialization
    init_runs,           \* number of times init_database() has been entered
    calls                \* number of calls made

store == <<linkedin_contacts, webhook_logs>>
seqs == <<id_seq, log_id_seq, clock>>
txn == <<txn_now, txn_log, txn_write, txn_seen>>
locals == <<log_id, contact_id, was_inserted>>
pgvars == <<linkedin_contacts, webhook_logs, id_seq, log_id_seq, clock, pc,
            data, conn, txn_now, txn_log, txn_write, txn_seen, log_id,
            contact_id, was_inserted, resp, faults, overlaps>>
v2vars == <<v2_linkedin_contacts, v2_seq, v2_now, v2_req, v2_resp, v2_count>>
initvars == <<db_initialized, init_lock, ipc, init_runs, calls>>
vars == <<pgvars, v2vars, initvars>>
env == <<faults, overlaps>>

Init ==
    /\ linkedin_contacts = {}
    /\ webhook_logs = {}
    /\ id_seq = 0
    /\ log_id_seq = 0
    /\ clock = 0
    /\ pc = [r \in Requests |-> "idle"]
    /\ data = [r \in Requests |-> NoBody]
    /\ conn = [r \in Requests |-> "none"]
    /\ txn_now = [r \in Requests |-> 0]
    /\ txn_log = [r \in Requests |-> NoLog]
    /\ txn_write = [r \in Requests |-> NoWrite]
    /\ txn_seen = [r \in Requests |-> {}]
    /\ log_id = [r \in Requests |-> NullId]
    /\ contact_id = [r \in Requests |-> NullId]
    /\ was_inserted = [r \in Requests |-> FALSE]
    /\ resp = [r \in Requests |-> NoResp]
    /\ faults = 0
    /\ overlaps = 0
    /\ v2_linkedin_contacts = {}
    /\ v2_seq = 0
    /\ v2_now = 0
    /\ v2_req = NoV2Req
    /\ v2_resp = NoV2Resp
    /\ v2_count = 0
    /\ db_initialized = FALSE
    /\ init_lock = FALSE
    /\ ipc = [c \in Callers |-> "idle"]
    /\ init_runs = 0
    /\ calls = 0

\* The locals of webhook() go away when it returns.
Return(r) ==
    /\ pc' = [pc EXCEPT ![r] = "done"]
    /\ txn_now' = [txn_now EXCEPT ![r] = 0]
    /\ txn_seen' = [txn_seen EXCEPT ![r] = {}]
    /\ log_id' = [log_id EXCEPT ![r] = NullId]
    /\ contact_id' = [contact_id EXCEPT ![r] = NullId]
    /\ was_inserted' = [was_inserted EXCEPT ![r] = FALSE]

InFlight == {r \in Requests : pc[r] \notin {"idle", "done"}}

\* jsonify({...}), code
Respond(r, code, status, action, cid, lid, message) ==
    resp' = [resp EXCEPT ![r] = [code |-> code, status |-> status,
                                 action |-> action, contact_id |-> cid,
                                 log_id |-> lid, message |-> message]]

\* -------------------------------------------------- engine: constraints
\* Two rows collide on a unique column: same non-NULL email or same
\* non-NULL linkedin_url ('' is a value like any other).
Collide(a, b) ==
    /\ a.id # b.id
    /\ \/ a.email # NULL /\ a.email = b.email
       \/ a.linkedin_url # NULL /\ a.linkedin_url = b.linkedin_url

UniqueViolation_emailonly(w, table) ==
    \E c \in table : c.id # w.id /\ w.email # NULL /\ w.email = c.email

\* unique_email / unique_linkedin_url as checked when row w is committed
\* into table.
UniqueViolation(w, table) == \E c \in table : Collide(w, c)

\* The committed table after the write w of a transaction is published.
ApplyWrite(table, w) ==
    IF w.kind = "insert" THEN table \cup {w.row}
    ELSE IF w.kind = "update"
         THEN {c \in table : c.id # w.row.id} \cup {w.row}
         ELSE table

\* Column col of a row, for the ON CONFLICT target.
Col(row, col) == IF col = "email" THEN row.email ELSE row.linkedin_url

\* The statement INSERT ... ON CONFLICT (col) of request r, proposing value
\* v, has to wait: another open transaction holds an uncommitted row with
\* the same value in col, or has locked the committed row it conflicts with.
Blocked(r, col, v) ==
    \E o \in InFlight \ {r} :
        /\ txn_write[o].kind # "none"
        /\ \/ Col(txn_write[o].row, col) = v
           \/ \E c \in linkedin_contacts :
                 /\ Col(c, col) = v
                 /\ c.id = txn_write[o].row.id

\* The deferred unique check of r's commit has to wait for the open
\* transactions whose uncommitted write decides its outcome.
Rivals(r) ==
    {o \in InFlight \ {r} :
        /\ txn_write[r].kind # "none"
        /\ txn_write[o].kind # "none"
        /\ \/ Collide(txn_write[r].row, txn_write[o].row)
           \/ \E c \in linkedin_contacts :
                 /\ c.id = txn_write[o].row.id
                 /\ Collide(txn_write[r].row, c)}


\* -------------------------------------------------- engine: the upserts
\* email = CASE WHEN EXCLUDED.email != '' THEN EXCLUDED.email
\*         ELSE linkedin_contacts.email END
\* (a NULL EXCLUDED.email makes the comparison NULL, so ELSE is taken)
CaseEmail_overwrite(excluded, existing) == excluded

CaseEmail(excluded, existing) ==
    IF excluded # NULL /\ excluded # "" THEN excluded ELSE existing

DoUpdateByEmail_keepurl(c, x) ==
    [c EXCEPT !.name = x.name, !.title = x.title,
              !.linkedin_url = IF x.linkedin_url = "" THEN @ ELSE x.linkedin_url,
              !.website = x.website,
              !.raw_json = x.raw_json, !.updated_at = x.updated_at]

DoUpdateByEmail_keepstamp(c, x) ==
    [c EXCEPT !.name = x.name, !.title = x.title,
              !.linkedin_url = x.linkedin_url, !.website = x.website,
              !.raw_json = x.raw_json]

\* ON CONFLICT (email) DO UPDATE SET ...: c is the existing row, x the
\* row proposed for insertion (EXCLUDED).
DoUpdateByEmail(c, x) ==
    [c EXCEPT !.name = x.name, !.title = x.title,
              !.linkedin_url = x.linkedin_url, !.website = x.website,
              !.raw_json = x.raw_json, !.updated_at = x.updated_at]

DoUpdateByUrl_setemail(c, x) ==
    [c EXCEPT !.name = x.name, !.title = x.title,
              !.email = x.email, !.website = x.website,
              !.raw_json = x.raw_json, !.updated_at = x.updated_at]

DoUpdateByUrl_recreated(c, x) ==
    [c EXCEPT !.name = x.name, !.title = x.title,
              !.email = CaseEmail(x.email, c.email), !.website = x.website,
              !.raw_json = x.raw_json, !.created_at = x.created_at,
              !.updated_at = x.updated_at]

\* ON CONFLICT (linkedin_url) DO UPDATE SET ...
DoUpdateByUrl(c, x) ==
    [c EXCEPT !.name = x.name, !.title = x.title,
              !.email = CaseEmail(x.email, c.email), !.website = x.website,
              !.raw_json = x.raw_json, !.updated_at = x.updated_at]

ConflictTarget_url(d) == "linkedin_url"

\* The conflict target of the branch taken for body d.
ConflictTarget(d) == IF email_of(d) # "" THEN "email" ELSE "linkedin_url"

\* The VALUES (...) of the INSERT for body d: the email branch passes
\* email, the other branch passes "email or None".
Proposed(d, id, now) ==
    ContactRow(id, name_of(d), title_of(d),
               IF email_of(d) # "" THEN email_of(d) ELSE NULL,
               linkedin_url_of(d), website_of(d), d, now, now)

\* The write INSERT ... ON CONFLICT ... performs on the committed table.
UpsertWrite(table, d, id, now) ==
    LET x == Proposed(d, id, now)
        col == ConflictTarget(d)
        hit == {c \in table : Col(c, col) = Col(x, col)}
    IN  IF hit = {} THEN [kind |-> "insert", row |-> x]
        ELSE LET c == CHOOSE c \in hit : TRUE
             IN [kind |-> "update",
                 row |-> IF col = "email" THEN DoUpdateByEmail(c, x)
                         ELSE DoUpdateByUrl(c, x)]

\* ------------------------------------------------------ POST /webhook
\* data = request.get_json(); if not data: return 400
Receive(r, d) ==
    /\ pc[r] = "idle"
    /\ \A o \in Requests : o < r => pc[o] # "idle"
    /\ IF InFlight = {} THEN UNCHANGED overlaps
       ELSE overlaps < MaxOverlaps /\ overlaps' = overlaps + 1
    /\ data' = [data EXCEPT ![r] = d]
    /\ IF d.kind = "invalid"
       THEN /\ pc' = [pc EXCEPT ![r] = "done"]
            /\ Respond(r, 500, "error", NULL, NullId, NullId, "bad_request")
       ELSE IF ~DataTruthy(d)
       THEN /\ pc' = [pc EXCEPT ![r] = "done"]
            /\ Respond(r, 400, NULL, NULL, NullId, NullId, "No data provided")
       ELSE /\ pc' = [pc EXCEPT ![r] = "log"]
            /\ UNCHANGED resp
    /\ UNCHANGED <<store, seqs, conn, txn, locals, faults>>

Rollback_commits(r, message) ==
    /\ webhook_logs' = webhook_logs \cup {txn_log[r]}
    /\ linkedin_contacts' = ApplyWrite(linkedin_contacts, txn_write[r])
    /\ txn_log' = [txn_log EXCEPT ![r] = NoLog]
    /\ txn_write' = [txn_write EXCEPT ![r] = NoWrite]
    /\ Return(r)
    /\ Respond(r, 500, "error", NULL, NullId, NullId, message)
    /\ UNCHANGED <<seqs, data, overlaps>>

\* except Exception: conn.rollback(); return error, 500
Rollback(r, message) ==
    /\ txn_log' = [txn_log EXCEPT ![r] = NoLog]
    /\ txn_write' = [txn_write EXCEPT ![r] = NoWrite]
    /\ Return(r)
    /\ Respond(r, 500, "error", NULL, NullId, NullId, message)
    /\ UNCHANGED <<store, seqs, data, overlaps>>

\* conn = get_db_connection(); cursor = conn.cursor(); the extraction for
\* the log, which raises when contactInfo is not a dict; INSERT INTO
\* webhook_logs ... RETURNING log_id (opens the transaction), then the
\* extraction of name, email and linkedin_url and the choice of the branch.
InsertLog(r) ==
    /\ pc[r] = "log"
    /\ conn' = [conn EXCEPT ![r] = "open"]
    /\ IF ContactInfoRaises(data[r])
       THEN Rollback(r, "AttributeError") /\ UNCHANGED faults
       ELSE /\ clock' = clock + 1
            /\ log_id_seq' = log_id_seq + 1
            /\ txn_now' = [txn_now EXCEPT ![r] = clock']
            /\ txn_log' = [txn_log EXCEPT ![r] =
                  LogRow(log_id_seq', data[r], clock')]
            /\ txn_seen' = [txn_seen EXCEPT ![r] =
                  {c.id : c \in {k \in linkedin_contacts :
                                    Col(k, ConflictTarget(data[r])) =
                                       unique_identifier(data[r])}}]
            /\ log_id' = [log_id EXCEPT ![r] = log_id_seq']
            /\ pc' = [pc EXCEPT ![r] = IF unique_identifier(data[r]) = ""
                                        THEN "skip" ELSE "upsert"]
            /\ UNCHANGED <<store, id_seq, data, txn_write, contact_id,
                           was_inserted, resp, env>>

Skip_nocommit(r) ==
    /\ pc[r] = "skip"
    /\ txn_log' = [txn_log EXCEPT ![r] = NoLog]
    /\ Return(r)
    /\ Respond(r, 200, "skipped", NULL, NullId, log_id[r],
               "No email or LinkedIn URL provided")
    /\ UNCHANGED <<store, seqs, data, conn, txn_write, env>>

\* website = websites[0]['url'] if websites else '' (may raise);
\* if not unique_identifier: conn.commit(); return skipped, 200
Skip(r) ==
    /\ pc[r] = "skip"
    /\ IF WebsiteRaises(data[r])
       THEN Rollback(r, "KeyError") /\ UNCHANGED <<conn, faults>>
       ELSE /\ webhook_logs' = webhook_logs \cup {txn_log[r]}
            /\ txn_log' = [txn_log EXCEPT ![r] = NoLog]
            /\ Return(r)
            /\ Respond(r, 200, "skipped", NULL, NullId, log_id[r],
                       "No email or LinkedIn URL provided")
            /\ UNCHANGED <<linkedin_contacts, seqs, data, conn, txn_write, env>>

Notes_created(d, inserted) ==
    [action |-> "created",
     matched_by |-> IF email_of(d) # "" THEN "email" ELSE "LinkedIn URL"]

Notes_byurl(d, inserted) ==
    [action |-> IF inserted THEN "created" ELSE "updated",
     matched_by |-> "LinkedIn URL"]

\* processing_notes = f"Contact {'created' if was_inserted else 'updated'}
\* with ID {contact_id} (matched by {'email' if email else 'LinkedIn URL'})"
Notes(d, inserted) ==
    [action |-> IF inserted THEN "created" ELSE "updated",
     matched_by |-> IF email_of(d) # "" THEN "email" ELSE "LinkedIn URL"]

\* website = websites[0]['url'] if websites else '' (may raise);
\* INSERT INTO linkedin_contacts ... ON CONFLICT ... RETURNING id,
\* (xmax = 0) AS inserted.  The SERIAL default is evaluated for the
\* proposed row whether or not the row ends up inserted.  Then
\* UPDATE webhook_logs SET processed = TRUE, contact_id, processing_notes
\* WHERE log_id = %s, which touches the request's own uncommitted row.
Upsert(r) ==
    /\ pc[r] = "upsert"
    /\ IF WebsiteRaises(data[r])
       THEN Rollback(r, "KeyError") /\ UNCHANGED <<conn, faults>>
       ELSE
         /\ LET d == data[r]
                x == Proposed(d, id_seq + 1, txn_now[r])
                w == UpsertWrite(linkedin_contacts, d, id_seq + 1, txn_now[r])
            IN  /\ ~Blocked(r, ConflictTarget(d), Col(x, ConflictTarget(d)))
                /\ id_seq' = id_seq + 1
                /\ txn_write' = [txn_write EXCEPT ![r] = w]
                /\ contact_id' = [contact_id EXCEPT ![r] = w.row.id]
                /\ was_inserted' =
                      [was_inserted EXCEPT ![r] = (w.kind = "insert")]
                /\ txn_log' = [txn_log EXCEPT ![r] =
                      [@ EXCEPT !.processed = TRUE,
                                !.contact_id = w.row.id,
                                !.processing_notes =
                                   Notes(d, w.kind = "insert")]]
         /\ pc' = [pc EXCEPT ![r] = "commit"]
         /\ UNCHANGED <<store, log_id_seq, clock, data, conn, txn_now,
                        txn_seen, log_id, resp, env>>

SuccessCode_always200(inserted) == 200

\* return jsonify({...}), 201 if was_inserted else 200
SuccessCode(inserted) == IF inserted THEN 201 ELSE 200

\* conn.commit(); cursor.close(); conn.close(); return success, 201 or 200.
\* The deferred unique constraints are checked by the commit.
Commit(r) ==
    /\ pc[r] = "commit"
    /\ Rivals(r) = {}
    /\ IF UniqueViolation(txn_write[r].row, linkedin_contacts)
       THEN Rollback(r, "unique_violation") /\ UNCHANGED <<conn, faults>>
       ELSE /\ linkedin_contacts' = ApplyWrite(linkedin_contacts, txn_write[r])
            /\ webhook_logs' = webhook_logs \cup {txn_log[r]}
            /\ txn_log' = [txn_log EXCEPT ![r] = NoLog]
            /\ txn_write' = [txn_write EXCEPT ![r] = NoWrite]
            /\ conn' = [conn EXCEPT ![r] = "closed"]
            /\ Return(r)
            /\ Respond(r, SuccessCode(was_inserted[r]), "success",
                       IF was_inserted[r] THEN "created" ELSE "updated",
                       contact_id[r], log_id[r], NULL)
            /\ UNCHANGED <<seqs, data, env>>

\* except Exception: rollback and 500; the connection stays as it was, or
\* was never opened when get_db_connection() is what raised.
Failed(r, message) ==
    /\ Rollback(r, message)
    /\ IF pc[r] = "log"
       THEN conn' \in {conn, [conn EXCEPT ![r] = "open"]}
       ELSE conn' = conn

\* Two commits wait for each other's colliding row: the engine aborts one
\* of them, whose conn.commit() raises.
DeadlockAbort(r) ==
    /\ pc[r] = "commit"
    /\ \E o \in Rivals(r) : pc[o] = "commit" /\ r \in Rivals(o)
    /\ Rollback(r, "deadlock_detected")
    /\ UNCHANGED <<conn, faults>>

\* A storage fault (connection loss, timeout) in get_db_connection(), in a
\* cursor.execute() or in conn.commit().
Fault(r) ==
    /\ pc[r] \in {"log", "skip", "upsert", "commit"}
    /\ faults < MaxFaults
    /\ faults' = faults + 1
    /\ Failed(r, "storage_fault")

\* Parsing the body touches nothing that another request reads, so a
\* request that has parsed its body takes its next step before any other
\* request moves: every interleaving is equivalent to one of this form.
Ready(r) == \A o \in Requests \ {r} : pc[o] # "log"

\* POST /webhook of app_postgres touches neither the SQLite store of app_v2
\* nor the initialization flags.
Others == <<v2vars, initvars>>

Next ==
    \E r \in Requests :
        \/ \E d \in Bodies : Ready(r) /\ Receive(r, d) /\ UNCHANGED Others
        \/ Ready(r) /\ InsertLog(r) /\ UNCHANGED Others
        \/ Ready(r) /\ Skip(r) /\ UNCHANGED Others
        \/ Ready(r) /\ Upsert(r) /\ UNCHANGED Others
        \/ Ready(r) /\ Commit(r) /\ UNCHANGED Others
        \/ Ready(r) /\ DeadlockAbort(r) /\ UNCHANGED Others
        \/ Ready(r) /\ Fault(r) /\ UNCHANGED Others

Spec == Init /\ [][Next]_vars

\* Deliveries made one after another: a request arrives only when no other
\* request is in flight.
ReceiveSeq(r, d) == InFlight = {} /\ Receive(r, d)

NextSeq ==
    \E r \in Requests :
        \/ \E d \in AllBodies : ReceiveSeq(r, d) /\ UNCHANGED Others
        \/ InsertLog(r) /\ UNCHANGED Others
        \/ Skip(r) /\ UNCHANGED Others
        \/ Upsert(r) /\ UNCHANGED Others
        \/ Commit(r) /\ UNCHANGED Others
        \/ Fault(r) /\ UNCHANGED Others

SpecSeq == Init /\ [][NextSeq]_vars

\* Deliveries made one after another, of payloads that carry keys.
NextKeyed ==
    \E r \in Requests :
        \/ \E d \in KeyedPayloads : ReceiveSeq(r, d) /\ UNCHANGED Others
        \/ InsertLog(r) /\ UNCHANGED Others
        \/ Skip(r) /\ UNCHANGED Others
        \/ Upsert(r) /\ UNCHANGED Others
        \/ Commit(r) /\ UNCHANGED Others
        \/ Fault(r) /\ UNCHANGED Others

SpecKeyed == Init /\ [][NextKeyed]_vars

\* ------------------------------------------------------------- app_v2
\* contact_info = data.get('contactInfo', {}); contact_info.get(...) raises
\* AttributeError unless contact_info is a dict.
v2_contact_info_raises(d) == d.ci /\ d.ci_type # "object"

\* contact_info.get('email', '')
v2_email_of(d) == IF d.ci THEN Get(d.ci_email, "") ELSE ""

\* contact_info.get('linkedinUrl', '')
v2_linkedin_url_of(d) == IF d.ci THEN Get(d.ci_linkedinUrl, "") ELSE ""

\* INSERT OR REPLACE INTO linkedin_contacts: the rows that conflict with
\* the new row on email TEXT UNIQUE are deleted, then the new row is
\* inserted ('' is a value like any other; no NULL email is ever passed).
InsertOrReplace(table, x) == {c \in table : c.email # x.email} \cup {x}

V2Answer(op, d, b, code, cid) ==
    /\ v2_count < MaxV2Requests
    /\ v2_count' = v2_count + 1
    /\ v2_req' = [op |-> op, data |-> d, body |-> b]
    /\ v2_resp' = [code |-> code, contact_id |-> cid]

\* POST /webhook of app_v2.  The id is INTEGER PRIMARY KEY AUTOINCREMENT:
\* one more than the largest id ever used; created_at defaults to the
\* current time, updated_at is the timestamp passed.
v2_webhook(d) ==
    IF d.kind = "invalid" \/ (DataTruthy(d) /\ v2_contact_info_raises(d))
    THEN /\ V2Answer("webhook", d, NoClearBody, 500, NullId)
         /\ UNCHANGED <<v2_linkedin_contacts, v2_seq, v2_now>>
    ELSE IF ~DataTruthy(d)
    THEN /\ V2Answer("webhook", d, NoClearBody, 400, NullId)
         /\ UNCHANGED <<v2_linkedin_contacts, v2_seq, v2_now>>
    ELSE /\ v2_now' = v2_now + 1
         /\ v2_seq' = v2_seq + 1
         /\ v2_linkedin_contacts' =
               InsertOrReplace(v2_linkedin_contacts,
                               V2Row(v2_seq', name_of(d), v2_email_of(d),
                                     v2_linkedin_url_of(d), d, v2_now', v2_now'))
         /\ V2Answer("webhook", d, NoClearBody, 200, v2_seq')

\* POST /clear of app_v2.  data = request.get_json() or {}; data.get(...)
\* is outside the try block: a BadRequest raised by get_json() is answered
\* 400 by Flask, an AttributeError raised by data.get() is answered 500.
clear(b) ==
    IF b.kind = "invalid"
    THEN /\ V2Answer("clear", NoBody, b, 400, NullId)
         /\ UNCHANGED <<v2_linkedin_contacts, v2_seq, v2_now>>
    ELSE IF b.kind = "string"
    THEN /\ V2Answer("clear", NoBody, b, 500, NullId)
         /\ UNCHANGED <<v2_linkedin_contacts, v2_seq, v2_now>>
    ELSE IF Get(b.confirm, NULL) # "yes-clear-all-data"
    THEN /\ V2Answer("clear", NoBody, b, 400, NullId)
         /\ UNCHANGED <<v2_linkedin_contacts, v2_seq, v2_now>>
    ELSE /\ v2_linkedin_contacts' = {}
         /\ V2Answer("clear", NoBody, b, 200, NullId)
         /\ UNCHANGED <<v2_seq, v2_now>>

NextV2 ==
    \/ \E d \in AllBodies : v2_webhook(d) /\ UNCHANGED <<pgvars, initvars>>
    \/ \E b \in ClearBodies : clear(b) /\ UNCHANGED <<pgvars, initvars>>

SpecV2 == Init /\ [][NextV2]_vars

\* ------------------------------------------- database initialization
\* The module calls ensure_db_initialized() once while it is imported,
\* before any request is served; afterwards request threads call index()
\* (GET /) or ensure_db_initialized().
MayCall(c) ==
    /\ ipc[c] = "idle"
    /\ calls < MaxCalls
    /\ calls = 0 => c = 1
    /\ calls = 1 => ipc[1] = "idle"

\* def ensure_db_initialized():
EnsureCall(c) ==
    /\ MayCall(c)
    /\ calls' = calls + 1
    /\ ipc' = [ipc EXCEPT ![c] = "check_initialized"]
    /\ UNCHANGED <<db_initialized, init_lock, init_runs>>

\* if _db_initialized: return
EnsureCheckInitialized(c) ==
    /\ ipc[c] = "check_initialized"
    /\ ipc' = [ipc EXCEPT ![c] = IF db_initialized THEN "idle" ELSE "check_lock"]
    /\ UNCHANGED <<db_initialized, init_lock, init_runs, calls>>

\* if _init_lock: time.sleep(2); return
EnsureCheckLock(c) ==
    /\ ipc[c] = "check_lock"
    /\ ipc' = [ipc EXCEPT ![c] = IF init_lock THEN "idle" ELSE "take_lock"]
    /\ UNCHANGED <<db_initialized, init_lock, init_runs, calls>>

\* _init_lock = True; try: init_database()
EnsureTakeLock(c) ==
    /\ ipc[c] = "take_lock"
    /\ init_lock' = TRUE
    /\ init_runs' = init_runs + 1
    /\ ipc' = [ipc EXCEPT ![c] = "init_database"]
    /\ UNCHANGED <<db_initialized, calls>>

\* init_database() returns: _db_initialized = True; or it raises: except
\* Exception logs the failure.
EnsureInitDone(c, ok) ==
    /\ ipc[c] = "init_database"
    /\ db_initialized' = (IF ok THEN TRUE ELSE db_initialized)
    /\ ipc' = [ipc EXCEPT ![c] = "release"]
    /\ UNCHANGED <<init_lock, init_runs, calls>>

\* finally: _init_lock = False
EnsureRelease(c) ==
    /\ ipc[c] = "release"
    /\ init_lock' = FALSE
    /\ ipc' = [ipc EXCEPT ![c] = "idle"]
    /\ UNCHANGED <<db_initialized, init_runs, calls>>

\* GET /: index() calls init_database() itself.
IndexCall(c) ==
    /\ MayCall(c)
    /\ calls >= 1
    /\ calls' = calls + 1
    /\ init_runs' = init_runs + 1
    /\ ipc' = [ipc EXCEPT ![c] = "index_init"]
    /\ UNCHANGED <<db_initialized, init_lock>>

\* init_database() returns or raises (which index() only logs); index()
\* then counts the rows and answers.
IndexInitDone(c) ==
    /\ ipc[c] = "index_init"
    /\ ipc' = [ipc EXCEPT ![c] = "idle"]
    /\ UNCHANGED <<db_initialized, init_lock, init_runs, calls>>

NextInit ==
    \E c \in Callers :
        \/ EnsureCall(c) /\ UNCHANGED <<pgvars, v2vars>>
        \/ EnsureCheckInitialized(c) /\ UNCHANGED <<pgvars, v2vars>>
        \/ EnsureCheckLock(c) /\ UNCHANGED <<pgvars, v2vars>>
        \/ EnsureTakeLock(c) /\ UNCHANGED <<pgvars, v2vars>>
        \/ \E ok \in BOOLEAN : EnsureInitDone(c, ok) /\ UNCHANGED <<pgvars, v2vars>>
        \/ EnsureRelease(c) /\ UNCHANGED <<pgvars, v2vars>>
        \/ IndexCall(c) /\ UNCHANGED <<pgvars, v2vars>>
        \/ IndexInitDone(c) /\ UNCHANGED <<pgvars, v2vars>>

SpecInit == Init /\ [][NextInit]_vars

\* ------------------------------------------------------------- helpers
NonEmpty(v) == v # NULL /\ v # ""

\* Request r returns in this step.
Returns(r) == pc[r] # "done" /\ pc'[r] = "done"

\* Request r returns in this step from inside its transaction.
ReturnsFromTxn(r) ==
    pc[r] \in {"skip", "upsert", "commit"} /\ pc'[r] = "done"

\* Rows of table that the delivery of d is matched to by its own key.
Matches(table, d) ==
    {c \in table : Col(c, ConflictTarget(d)) = unique_identifier(d)}

\* Two bodies carry the same identifier.
SameIdentifier(d1, d2) ==
    /\ unique_identifier(d1) # ""
    /\ ConflictTarget(d1) = ConflictTarget(d2)
    /\ unique_identifier(d1) = unique_identifier(d2)

\* Rows of table carrying the key of d: its email when that is non-empty,
\* otherwise its profile URL.
KeyRows(table, d) ==
    IF email_of(d) # "" THEN {c \in table : c.email = email_of(d)}
    ELSE {c \in table : c.linkedin_url = linkedin_url_of(d)}

\* The response of r is not the result of an injected storage fault.
NoStorageFault(rsp) == rsp.message # "storage_fault"


\* ------------------------------------------------------------- claims

\* C1: a delivery with a non-empty contactInfo.email E succeeds and leaves
\* exactly one contact row with email E, the one whose id it reports (a
\* repeat with another name updates that row).  Stated for every returned
\* request that did not hit a storage fault.
C1_EmailDeliverySucceeds ==
    \A r \in Requests :
        (/\ pc[r] = "done"
         /\ data[r].kind = "object"
         /\ email_of(data[r]) # ""
         /\ NoStorageFault(resp[r]))
        => /\ resp[r].status = "success"
           /\ \E c \in linkedin_contacts :
                 /\ c.email = email_of(data[r])
                 /\ c.id = resp[r].contact_id
           /\ Cardinality({c \in linkedin_contacts :
                              c.email = email_of(data[r])}) = 1

\* C2: when a contact with NULL email and profile URL U is stored, a
\* delivery carrying U and a non-empty email E is an update of that
\* contact: action "updated", same contact_id, email now E, no new row, no
\* error.
C2_UrlMatchPopulatesEmail ==
    [][\A r \in Requests : \A c \in linkedin_contacts :
          (/\ pc[r] = "commit" /\ pc'[r] = "done"
           /\ email_of(data[r]) # ""
           /\ c.email = NULL
           /\ NonEmpty(c.linkedin_url)
           /\ c.linkedin_url = linkedin_url_of(data[r])
           /\ NoStorageFault(resp'[r]))
          => /\ resp'[r].action = "updated"
             /\ resp'[r].contact_id = c.id
             /\ \E c2 \in linkedin_contacts' :
                   c2.id = c.id /\ c2.email = email_of(data[r])
             /\ Cardinality(linkedin_contacts') =
                   Cardinality(linkedin_contacts)]_vars

\* C3: a stored non-empty email is never replaced by an empty or NULL
\* value, and a delivery with empty email (matched by profile URL) leaves
\* the email of every contact exactly as it was.
C3_EmailNeverErased ==
    [][\A c \in linkedin_contacts :
          NonEmpty(c.email)
          => \E c2 \in linkedin_contacts' :
                /\ c2.id = c.id
                /\ NonEmpty(c2.email)
                /\ (\A r \in Requests :
                       (Returns(r) /\ email_of(data[r]) = "")
                       => c2.email = c.email)]_vars

\* C3 witness: a contact with a non-empty email has been updated by a
\* delivery matched by profile URL (which carried no email).
C3_Witness ==
    \E c \in linkedin_contacts : \E l \in webhook_logs :
        /\ NonEmpty(c.email)
        /\ l.contact_id = c.id
        /\ l.contact_email = ""
        /\ l.processing_notes.action = "updated"
        /\ l.processing_notes.matched_by = "LinkedIn URL"
        /\ c.raw_json = l.webhook_data


\* C4: of two concurrent requests carrying the same identifier while no
\* matching contact is stored, neither fails: the one that returns first,
\* while the other is still inside its transaction, reports success and
\* leaves exactly one row for the identifier.
C4_ConcurrentSameIdentifier ==
    [][\A r \in Requests : \A o \in Requests \ {r} :
          (/\ pc[r] = "commit" /\ pc'[r] = "done"
           /\ pc[o] \in {"upsert", "commit"}
           /\ SameIdentifier(data[r], data[o])
           /\ Matches(linkedin_contacts, data[r]) = {}
           /\ NoStorageFault(resp'[r]))
          => /\ resp'[r].status = "success"
             /\ Cardinality(Matches(linkedin_contacts', data[r])) = 1]_vars

\* C5: a request that faults after its log entry was inserted is answered
\* 500 with status "error", and the step in which it fails leaves the
\* committed tables as they were and discards its uncommitted log entry
\* and contact write; a request that leaves its transaction in any other
\* way has committed.
C5_FaultRollsBack ==
    [][\A r \in Requests :
          ReturnsFromTxn(r)
          => \/ /\ resp'[r].code = 500
                /\ resp'[r].status = "error"
                /\ linkedin_contacts' = linkedin_contacts
                /\ webhook_logs' = webhook_logs
                /\ txn_log'[r] = NoLog
                /\ txn_write'[r] = NoWrite
             \/ /\ resp'[r].code \in {200, 201}
                /\ txn_log[r] \in webhook_logs']_vars

\* C5 witness: a request was refused by a constraint at commit, after its
\* log entry and its contact write: both sequences have moved on, but no
\* log row and no contact row of it is stored.
C5_Witness ==
    \E r \in Requests :
        /\ pc[r] = "done"
        /\ resp[r].code = 500
        /\ resp[r].message = "unique_violation"
        /\ log_id_seq > Cardinality(webhook_logs)
        /\ id_seq > Cardinality(linkedin_contacts)
        /\ \A l \in webhook_logs : l.webhook_data # data[r]

\* C6 (as claimed): every delivery, whatever its outcome, adds exactly one
\* committed log entry.
C6_OneLogPerDelivery ==
    Cardinality(webhook_logs) = Cardinality({r \in Requests : pc[r] = "done"})

\* C6 (amended): every delivery answered created, updated or skipped has
\* exactly one committed log entry, the one whose log_id it reports, and
\* the table holds no other rows: a delivery answered 400 or 500 adds none.
C6_OneLogPerAnsweredDelivery ==
    LET answered == {r \in Requests :
                        pc[r] = "done" /\ resp[r].status \in {"success", "skipped"}}
    IN  /\ Cardinality(webhook_logs) = Cardinality(answered)
        /\ \A r \in answered :
              Cardinality({l \in webhook_logs : l.log_id = resp[r].log_id}) = 1
        /\ \A l \in webhook_logs :
              \E r \in answered :
                 resp[r].log_id = l.log_id /\ l.webhook_data = data[r]

\* C6 witness: one delivery was created, one was skipped and one was
\* refused or failed, and the log holds two rows.
C6_Witness ==
    /\ \E r \in Requests : pc[r] = "done" /\ resp[r].action = "created"
    /\ \E r \in Requests : pc[r] = "done" /\ resp[r].status = "skipped"
    /\ \E r \in Requests : pc[r] = "done" /\ resp[r].code \in {400, 500}
    /\ Cardinality(webhook_logs) = 2


\* C7: replay is idempotent.  When the payload delivered is identical to
\* the one that last wrote a stored contact, the delivery is an update of
\* that contact: afterwards exactly one row answers to the payload's key,
\* it has the same id and the same field values as before, only its
\* updated_at is strictly later, and no row was added.  Deliveries are
\* made one after another.
C7_ReplayIdempotent ==
    [][\A r \in Requests : \A c \in linkedin_contacts :
          (/\ pc[r] = "commit" /\ pc'[r] = "done"
           /\ c.raw_json = data[r]
           /\ NoStorageFault(resp'[r]))
          => /\ resp'[r].action = "updated"
             /\ resp'[r].contact_id = c.id
             /\ \E c2 \in linkedin_contacts' :
                   /\ Matches(linkedin_contacts', data[r]) = {c2}
                   /\ c2 = [c EXCEPT !.updated_at = c2.updated_at]
                   /\ c2.updated_at > c.updated_at
             /\ Cardinality(linkedin_contacts') =
                   Cardinality(linkedin_contacts)]_vars

\* C7 witness: a payload was delivered three times: the log shows one
\* creation and two updates of the same contact by the same payload, and
\* the contact's updated_at is later than its created_at.
C7_Witness ==
    \E c \in linkedin_contacts : \E l0, l1, l2 \in webhook_logs :
        /\ l0.webhook_data = c.raw_json /\ l0.contact_id = c.id
        /\ l1.webhook_data = c.raw_json /\ l1.contact_id = c.id
        /\ l2.webhook_data = c.raw_json /\ l2.contact_id = c.id
        /\ l0.processing_notes.action = "created"
        /\ l1.processing_notes.action = "updated"
        /\ l2.processing_notes.action = "updated"
        /\ l1.log_id # l2.log_id
        /\ c.updated_at > c.created_at

\* C8: every stored contact has a non-empty email or a non-empty
\* linkedin_url.
C8_ContactHasIdentifier ==
    \A c \in linkedin_contacts : NonEmpty(c.email) \/ NonEmpty(c.linkedin_url)

\* C8 witness: a contact without email and a contact without profile URL
\* are stored, and a delivery lacking both was logged without a contact.
C8_Witness ==
    /\ \E c \in linkedin_contacts : c.email = NULL
    /\ \E c \in linkedin_contacts : c.linkedin_url = ""
    /\ \E l \in webhook_logs :
          /\ l.contact_email = "" /\ l.linkedin_url = ""
          /\ l.contact_id = NullId

\* C9: no two distinct stored contacts share a non-empty email, and no
\* two share a non-empty linkedin_url.
C9_UniqueKeys ==
    \A c1, c2 \in linkedin_contacts :
        c1 # c2
        => /\ ~(NonEmpty(c1.email) /\ c1.email = c2.email)
           /\ ~(NonEmpty(c1.linkedin_url) /\ c1.linkedin_url = c2.linkedin_url)

\* C9 witness: two contacts are stored and a delivery that would have
\* added a second row with the profile URL of one of them was refused.
C9_Witness ==
    /\ Cardinality(linkedin_contacts) >= 2
    /\ \E r \in Requests : \E c \in linkedin_contacts :
          /\ pc[r] = "done"
          /\ resp[r].message = "unique_violation"
          /\ NonEmpty(c.linkedin_url)
          /\ c.linkedin_url = linkedin_url_of(data[r])
          /\ c.email # email_of(data[r])

\* C10: a JSON object whose extracted email and profile URL are both
\* empty is answered 200 "skipped", with a committed log entry that has
\* processed = FALSE and no contact reference, and no contact row carries
\* its payload.
C10_NoIdentifierSkipped ==
    \A r \in Requests :
        (/\ pc[r] = "done"
         /\ data[r].kind = "object"
         /\ email_of(data[r]) = ""
         /\ linkedin_url_of(data[r]) = ""
         /\ NoStorageFault(resp[r]))
        => /\ resp[r].code = 200
           /\ resp[r].status = "skipped"
           /\ \E l \in webhook_logs :
                 /\ l.log_id = resp[r].log_id
                 /\ l.processed = FALSE
                 /\ l.contact_id = NullId
           /\ \A c \in linkedin_contacts : c.raw_json # data[r]

\* C11: the committed log entry of a delivery that was skipped for lack
\* of an identifier has processed = FALSE and carries an outcome note.
C11_SkipNoteRecorded ==
    \A r \in Requests :
        (pc[r] = "done" /\ resp[r].status = "skipped")
        => \E l \in webhook_logs :
              /\ l.log_id = resp[r].log_id
              /\ l.processed = FALSE
              /\ l.processing_notes # NoNotes

\* C12: a delivery whose body is the empty object {} is answered
\* "skipped" without a contact_id, and a log entry with processed = FALSE
\* is committed for it.
C12_EmptyObjectSkipped ==
    \A r \in Requests :
        (pc[r] = "done" /\ data[r] = EmptyObject)
        => /\ resp[r].status = "skipped"
           /\ resp[r].contact_id = NullId
           /\ \E l \in webhook_logs :
                 /\ l.webhook_data = EmptyObject
                 /\ l.processed = FALSE

\* C13 (as claimed): a successful delivery reports "created" exactly when
\* no contact with its key was stored when its transaction started, and
\* "updated" exactly when one was, whose id it then returns.
C13_ActionByTransactionStart ==
    [][\A r \in Requests :
          (pc[r] = "commit" /\ pc'[r] = "done" /\ resp'[r].status = "success")
          => /\ resp'[r].action = "created" <=> txn_seen[r] = {}
             /\ resp'[r].action = "updated" <=> txn_seen[r] # {}
             /\ resp'[r].action = "updated"
                => resp'[r].contact_id \in txn_seen[r]]_vars

\* C13 (amended): the upsert statement inserts exactly when no committed
\* contact carries the delivery's key at the time it runs, and otherwise
\* updates a contact carrying it; a successful delivery reports "created"
\* for the insert and "updated" with the id of that stored contact for the
\* update.
C13_ActionByUpsert ==
    [][\A r \in Requests :
          /\ (pc[r] = "upsert" /\ pc'[r] = "commit")
             => /\ was_inserted'[r] <=> KeyRows(linkedin_contacts, data[r]) = {}
                /\ ~was_inserted'[r]
                   => \E c \in KeyRows(linkedin_contacts, data[r]) :
                         c.id = contact_id'[r]
          /\ (pc[r] = "commit" /\ pc'[r] = "done" /\ resp'[r].status = "success")
             => /\ resp'[r].action = IF was_inserted[r] THEN "created"
                                     ELSE "updated"
                /\ resp'[r].contact_id = contact_id[r]
                /\ ~was_inserted[r]
                   => \E c \in linkedin_contacts : c.id = contact_id[r]
                /\ \E c \in KeyRows(linkedin_contacts', data[r]) :
                      c.id = contact_id[r]]_vars

\* C13 witness: a request is about to commit an update of a contact that
\* was not stored when its transaction started: another request created
\* it in between.
C13_Witness ==
    \E r \in Requests : \E o \in Requests \ {r} :
        /\ pc[r] = "commit"
        /\ ~was_inserted[r]
        /\ txn_seen[r] = {}
        /\ pc[o] = "done"
        /\ resp[o].action = "created"
        /\ resp[o].contact_id = contact_id[r]

\* C14: a successful delivery with non-empty email E that conflicts with
\* the stored contact with email E leaves that contact with the name,
\* title, linkedin_url, website and raw payload extracted from the
\* delivery, empty values included, and with updated_at set to the
\* timestamp of the delivery's transaction; id, email and created_at are
\* as before.
C14_EmailConflictOverwrites ==
    [][\A r \in Requests :
          (/\ pc[r] = "commit" /\ pc'[r] = "done"
           /\ resp'[r].status = "success"
           /\ email_of(data[r]) # ""
           /\ ~was_inserted[r])
          => \E c \in linkedin_contacts :
                /\ c.email = email_of(data[r])
                /\ ContactRow(c.id, name_of(data[r]), title_of(data[r]),
                              c.email, linkedin_url_of(data[r]),
                              website_of(data[r]), data[r], c.created_at,
                              txn_now[r]) \in linkedin_contacts'
                /\ \A c2 \in linkedin_contacts' :
                      c2.id = c.id => c2.raw_json = data[r]]_vars

\* C14 witness: a contact created with a profile URL was updated, matched
\* by email, by a delivery without profile URL, and its linkedin_url is
\* now empty.
C14_Witness ==
    \E c \in linkedin_contacts : \E l0, l1 \in webhook_logs :
        /\ l0.contact_id = c.id /\ l1.contact_id = c.id
        /\ l0.processing_notes.action = "created"
        /\ l0.linkedin_url # ""
        /\ l1.processing_notes.action = "updated"
        /\ l1.processing_notes.matched_by = "email"
        /\ c.raw_json = l1.webhook_data
        /\ NonEmpty(c.email)
        /\ c.linkedin_url = ""

\* C15: the log entry of a delivery is inserted with processed = FALSE,
\* no contact reference and no note while no contact write of the delivery
\* exists yet; the upsert step changes it once, to processed = TRUE, the
\* id of the upserted contact and a note naming created/updated and the
\* matched key; it is committed in that form by a successful delivery, and
\* no committed log entry is changed or removed afterwards.
C15_LogLifecycle ==
    [][/\ \A r \in Requests :
             /\ (pc[r] = "log" /\ pc'[r] \in {"skip", "upsert"})
                => /\ txn_log'[r].processed = FALSE
                   /\ txn_log'[r].contact_id = NullId
                   /\ txn_log'[r].processing_notes = NoNotes
                   /\ txn_write'[r] = NoWrite
             /\ (pc[r] = "upsert" /\ pc'[r] = "commit")
                => /\ txn_log[r].processed = FALSE
                   /\ txn_log'[r] =
                         [txn_log[r] EXCEPT
                            !.processed = TRUE,
                            !.contact_id = txn_write'[r].row.id,
                            !.processing_notes =
                               [action |-> IF txn_write'[r].kind = "insert"
                                           THEN "created" ELSE "updated",
                                matched_by |-> IF email_of(data[r]) # ""
                                               THEN "email"
                                               ELSE "LinkedIn URL"]]
             /\ (pc[r] = pc'[r] /\ pc[r] \in {"skip", "upsert", "commit"})
                => txn_log'[r] = txn_log[r]
             /\ (pc[r] = "commit" /\ pc'[r] = "done"
                 /\ resp'[r].status = "success")
                => \E l \in webhook_logs' \ webhook_logs :
                      /\ l = txn_log[r]
                      /\ l.log_id = resp'[r].log_id
                      /\ l.processed = TRUE
                      /\ l.contact_id = resp'[r].contact_id
                      /\ l.processing_notes.action = resp'[r].action
       /\ webhook_logs \subseteq webhook_logs']_vars

\* C15 witness: the log holds an entry finalized as created, matched by
\* email, and a later one finalized as updated, matched by profile URL,
\* both for the same contact.
C15_Witness ==
    \E l0, l1 \in webhook_logs :
        /\ l0.processed /\ l1.processed
        /\ l0.log_id < l1.log_id
        /\ l0.contact_id = l1.contact_id /\ l0.contact_id # NullId
        /\ l0.processing_notes = [action |-> "created", matched_by |-> "email"]
        /\ l1.processing_notes =
              [action |-> "updated", matched_by |-> "LinkedIn URL"]

\* C16: a stored contact stays stored with the same id and the same
\* created_at in every step, and no two stored contacts have the same id.
C16_IdAndCreatedAtFixed ==
    [][/\ \A c \in linkedin_contacts :
             \E c2 \in linkedin_contacts' :
                c2.id = c.id /\ c2.created_at = c.created_at
       /\ \A c1, c2 \in linkedin_contacts' :
             c1.id = c2.id => c1 = c2]_vars

\* C16 witness: a contact has been updated by a delivery matched by email
\* and by a delivery matched by profile URL, at a time later than its
\* creation.
C16_Witness ==
    \E c \in linkedin_contacts : \E l1, l2 \in webhook_logs :
        /\ l1.contact_id = c.id /\ l2.contact_id = c.id
        /\ l1.processing_notes = [action |-> "updated", matched_by |-> "email"]
        /\ l2.processing_notes =
              [action |-> "updated", matched_by |-> "LinkedIn URL"]
        /\ c.updated_at > c.created_at

\* C17: the profile URL stored with a log entry and with a contact is
\* contactInfo.linkedinUrl when that is present and non-empty, otherwise
\* the top-level profileUrl (also when contactInfo is a non-empty object),
\* otherwise the empty string.
C17_ProfileUrlFallback ==
    LET claimed(d) ==
            IF d.ci /\ d.ci_linkedinUrl \notin {Missing, ""}
            THEN d.ci_linkedinUrl
            ELSE Get(d.profileUrl, "")
    IN  /\ \A l \in webhook_logs : l.linkedin_url = claimed(l.webhook_data)
        /\ \A c \in linkedin_contacts : c.linkedin_url = claimed(c.raw_json)

\* C18: a JSON object in which contactInfo is absent, null or not an
\* object, or whose first website entry lacks a url, is never answered
\* with an error: the delivery ends as created, updated or skipped.
C18_ExtractionNeverFaults ==
    \A r \in Requests :
        (/\ pc[r] = "done"
         /\ data[r].kind = "object"
         /\ DataTruthy(data[r])
         /\ \/ ~data[r].ci
            \/ data[r].ci_type # "object"
            \/ data[r].ci_websites = NoUrlEntry
         /\ NoStorageFault(resp[r]))
        => /\ resp[r].code # 500
           /\ resp[r].status \in {"success", "skipped"}

\* C19 (as claimed): a delivery that wrote a contact is answered 200,
\* whether the contact was created or updated.
C19_SuccessIs200 ==
    \A r \in Requests :
        (pc[r] = "done" /\ resp[r].status = "success") => resp[r].code = 200

\* C19 (amended): a delivery that wrote a contact is answered 201 when the
\* contact was created and 200 when it was updated.
C19_CreatedIs201UpdatedIs200 ==
    \A r \in Requests :
        (pc[r] = "done" /\ resp[r].status = "success")
        => /\ resp[r].action \in {"created", "updated"}
           /\ resp[r].action = "created" => resp[r].code = 201
           /\ resp[r].action = "updated" => resp[r].code = 200
           /\ \E c \in linkedin_contacts : c.id = resp[r].contact_id

\* C19 witness: one delivery was answered created and another updated,
\* for the same contact.
C19_Witness ==
    \E r1, r2 \in Requests :
        /\ pc[r1] = "done" /\ pc[r2] = "done"
        /\ resp[r1].action = "created" /\ resp[r1].code = 201
        /\ resp[r2].action = "updated" /\ resp[r2].code = 200
        /\ resp[r1].contact_id = resp[r2].contact_id

\* C20: a request whose body is absent or is not valid JSON is answered
\* 400, and the step that answers it changes neither table.
C20_MalformedIs400 ==
    [][\A r \in Requests :
          (pc[r] = "idle" /\ pc'[r] # "idle" /\ data'[r].kind # "object")
          => /\ resp'[r].code = 400
             /\ linkedin_contacts' = linkedin_contacts
             /\ webhook_logs' = webhook_logs]_vars

\* C22: two deliveries with distinct non-empty emails and both with an
\* empty profile URL both succeed and leave one contact row for each of
\* the two emails, in whichever order they arrive.
C22_EmptyUrlNotUnique ==
    \A r1, r2 \in Requests :
        (/\ pc[r1] = "done" /\ pc[r2] = "done"
         /\ data[r1].kind = "object" /\ data[r2].kind = "object"
         /\ ~ContactInfoRaises(data[r1]) /\ ~ContactInfoRaises(data[r2])
         /\ email_of(data[r1]) # "" /\ email_of(data[r2]) # ""
         /\ email_of(data[r1]) # email_of(data[r2])
         /\ linkedin_url_of(data[r1]) = "" /\ linkedin_url_of(data[r2]) = ""
         /\ NoStorageFault(resp[r1]) /\ NoStorageFault(resp[r2]))
        => /\ resp[r1].status = "success" /\ resp[r2].status = "success"
           /\ \E c1, c2 \in linkedin_contacts :
                 /\ c1.id # c2.id
                 /\ c1.email = email_of(data[r1])
                 /\ c2.email = email_of(data[r2])

\* C23: when a stored contact has profile URL U and a non-empty email,
\* a delivery carrying U and a different non-empty email overwrites the
\* stored email of that contact with the incoming one.
C23_UrlMatchOverwritesEmail ==
    [][\A r \in Requests : \A c \in linkedin_contacts :
          (/\ Returns(r)
           /\ data[r].kind = "object"
           /\ ~ContactInfoRaises(data[r])
           /\ NonEmpty(c.linkedin_url)
           /\ c.linkedin_url = linkedin_url_of(data[r])
           /\ NonEmpty(c.email)
           /\ email_of(data[r]) # ""
           /\ email_of(data[r]) # c.email
           /\ NoStorageFault(resp'[r]))
          => \E c2 \in linkedin_contacts' :
                c2.id = c.id /\ c2.email = email_of(data[r])]_vars

\* C24: a request that has been answered, on whichever path (created or
\* updated, skipped, fault), holds no open connection.
C24_ConnectionClosed ==
    \A r \in Requests : pc[r] = "done" => conn[r] # "open"

\* C27: the email column of a contact row never changes after the row is
\* created: every stored row is still stored after any step, with the
\* email it had.
C27_EmailFixed ==
    [][\A c \in linkedin_contacts :
          \E c2 \in linkedin_contacts' :
              c2.id = c.id /\ c2.email = c.email]_vars

\* C27 witness: a contact created with a non-empty email has since been
\* rewritten by a different delivery and still carries the email it was
\* created with.
C27_Witness ==
    \E c \in linkedin_contacts : \E l1, l2 \in webhook_logs :
        /\ l1.contact_id = c.id /\ l2.contact_id = c.id
        /\ l1.processing_notes.action = "created"
        /\ l2.processing_notes.action = "updated"
        /\ NonEmpty(l1.contact_email)
        /\ c.email = l1.contact_email
        /\ c.raw_json = l2.webhook_data
        /\ l2.webhook_data # l1.webhook_data

\* C28: a committed log entry has processed = true exactly when its
\* contact reference is non-null, and every non-null contact reference is
\* the id of a stored contact.
C28_ProcessedIffReferenced ==
    \A l \in webhook_logs :
        /\ l.processed <=> l.contact_id # NullId
        /\ l.contact_id # NullId
           => \E c \in linkedin_contacts : c.id = l.contact_id

\* C28 witness: the committed log holds an unprocessed entry without a
\* contact reference (a skipped delivery) next to processed entries that
\* reference two different stored contacts.
C28_Witness ==
    \E l0, l1, l2 \in webhook_logs : \E c1, c2 \in linkedin_contacts :
        /\ ~l0.processed /\ l0.contact_id = NullId
        /\ l1.processed /\ l1.contact_id = c1.id
        /\ l2.processed /\ l2.contact_id = c2.id
        /\ c1.id # c2.id

\* C29: the number of contact rows always equals the number of committed
\* log entries whose note says the contact was created, and the number of
\* contact rows never decreases.
C29_ContactsCountCreated ==
    /\ [](Cardinality(linkedin_contacts) =
            Cardinality({l \in webhook_logs :
                            l.processing_notes.action = "created"}))
    /\ [][Cardinality(linkedin_contacts') >= Cardinality(linkedin_contacts)]_vars

\* C29 witness: two contacts are stored and the log holds three finalized
\* entries, one of which says updated.
C29_Witness ==
    /\ Cardinality(linkedin_contacts) = 2
    /\ Cardinality({l \in webhook_logs : l.processed}) = 3
    /\ \E l \in webhook_logs : l.processing_notes.action = "updated"

\* C21: POST /clear of app_v2 empties the table only when the body is an
\* object whose confirm field is exactly "yes-clear-all-data"; every other
\* body is answered 400 and leaves the table as it was.
C21_ClearNeedsConfirmation ==
    [][(v2_count' = v2_count + 1 /\ v2_req'.op = "clear")
       => IF /\ v2_req'.body.kind = "object"
             /\ v2_req'.body.confirm = "yes-clear-all-data"
          THEN v2_linkedin_contacts' = {}
          ELSE /\ v2_resp'.code = 400
               /\ v2_linkedin_contacts' = v2_linkedin_contacts]_vars

\* C26: a delivery to app_v2 that is answered 200 and whose email is that
\* of a stored contact leaves that contact stored under the id it had, as
\* the only row with that email; one whose email is not stored adds one
\* row and leaves every stored row as it was.
C26_UpdateInPlace ==
    [][(/\ v2_count' = v2_count + 1
        /\ v2_req'.op = "webhook"
        /\ v2_resp'.code = 200)
       => LET e == v2_email_of(v2_req'.data)
              stored == {c \in v2_linkedin_contacts : c.email = e}
              after == {c \in v2_linkedin_contacts' : c.email = e}
          IN  IF stored # {}
              THEN /\ Cardinality(after) = 1
                   /\ \A c \in stored : \E c2 \in after : c2.id = c.id
              ELSE /\ Cardinality(after) = 1
                   /\ v2_linkedin_contacts \subseteq v2_linkedin_contacts'
                   /\ v2_linkedin_contacts' = v2_linkedin_contacts \cup after]_vars

\* C25: init_database() is entered at most once in the life of the
\* process, and no two callers are inside it at the same time.
C25_InitializedOnce ==
    /\ init_runs <= 1
    /\ Cardinality({c \in Callers :
                       ipc[c] \in {"init_database", "index_init"}}) <= 1

====
